---- MODULE Spec2Model ----
(***************************************************************************)
(* Model of the Jira "assign version" engine: assignVersionToIssues, its   *)
(* retry loop requestWithRetry and the idempotency check                   *)
(* issueAlreadyHasVersion (src/src/main.ts, the ./jira part).              *)
(*                                                                         *)
(* One task per occurrence of an issue in config.issues.  A step of the    *)
(* model is the code that runs between two awaits of the single-threaded   *)
(* event loop: the transport (client.request) and the delay primitive      *)
(* (sleepFn) are the environment and answer nondeterministically.          *)
(***************************************************************************)
EXTENDS Integers, Sequences, FiniteSets, TLC

\* ------------------------------------------------------------------ bounds
MaxIssues == 2
MaxConcurrency == 2
MaxRetriesBound == 2
MaxRuns == 2

\* --------------------------------------------------------------- constants
IssueIds == {"ABC-1", "ABC-2"}

V1 == [id |-> "10", name |-> "v1.2.3"]
V2 == [id |-> "11", name |-> "v2.0.0"]
Catalog == {V1, V2}

\* A JS number: a finite integer or NaN.
Num(n) == [nan |-> FALSE, val |-> n]
NaN == [nan |-> TRUE, val |-> 0]

\* b^e, Math.pow on small naturals
RECURSIVE Pow(_, _)
Pow(b, e) == IF e = 0 THEN 1 ELSE b * Pow(b, e - 1)

\* a * k for a JS number a and an integer k
Times(a, k) == IF a.nan THEN NaN ELSE Num(a.val * k)

\* ------------------------------------------------------------ header values
\* A header value is a string, kept as its sequence of characters.
Undefined == <<"<undefined>">>
Digits == <<"0", "1", "2", "3", "4", "5", "6", "7", "8", "9">>
IsDigit(c) == \E d \in 1..Len(Digits) : Digits[d] = c
DigitVal(c) == (CHOOSE d \in 1..Len(Digits) : Digits[d] = c) - 1

RECURSIVE Decimal(_)
Decimal(s) ==
    IF s = <<>> THEN 0
    ELSE Decimal(SubSeq(s, 1, Len(s) - 1)) * Len(Digits) + DigitVal(s[Len(s)])

\* Number(str): the numeric value of a decimal string, 0 for the empty
\* string, NaN for anything that is no number.
Number(s) ==
    IF \A k \in 1..Len(s) : IsDigit(s[k]) THEN Num(Decimal(s)) ELSE NaN

\* JS truthiness of a header lookup result
Truthy(v) == v # Undefined /\ v # <<>>

\* headers[name]
Lookup(headers, name) ==
    IF name \in DOMAIN headers THEN headers[name] ELSE Undefined

NoHeaders == [n \in {} |-> <<>>]
Header(name, value) == [n \in {name} |-> value]

\* ------------------------------------------------------------------ bodies
\* A body is the text the transport hands back; JSON text is kept as the
\* value it denotes.
Blank == [text |-> "blank"]
Garbage == [text |-> "garbage"]
JsonNull == [text |-> "json", value |-> [t |-> "null"]]
JsonError == [text |-> "json", value |-> [t |-> "object", hasFields |-> FALSE, versions |-> {}]]
JsonIssue(vs) ==
    [text |-> "json", value |-> [t |-> "object", hasFields |-> TRUE, versions |-> vs]]

\* ------------------------------------------------------------------- state
VARIABLES
    config,       \* JiraConfig: issues, version, versionIsId, dryRun, concurrency, maxRetries
    client,       \* the transport handed to assignVersionToIssues
    remote,       \* the tracker: issue id -> content of the selected version field
    pc,           \* per task: where its async function is suspended
    attempt,      \* per task: requestWithRetry's attempt counter
    res,          \* per task: the last answer (response or error) of client.request
    sleepMs,      \* per task: the argument of the pending sleepFn call
    activeCount,  \* p-limit: tasks holding a slot
    updated, skipped, failed,   \* the three result lists
    returned,     \* assignVersionToIssues has returned its report
    outcome,      \* per task: the list its issue was pushed to, "none" before
    calls,        \* transport side: client.request calls seen for the task's current request
    requests,     \* transport side: the methods the task has requested so far
    sleeps,       \* delay side: sleepFn calls seen for the task's current request
    host,         \* the calls run() has made on core after the report, in order
    run, prev     \* number of the current run; report and tracker at the end of the run before

vars == <<config, client, remote, pc, attempt, res, sleepMs, activeCount,
          updated, skipped, failed, returned, outcome, calls, requests, sleeps,
          run, prev, host>>

Tasks == 1..Len(config.issues)

NoRes == [t |-> "none"]
NoSleep == Num(0)
NoReport == [updated |-> <<>>, skipped |-> <<>>, failed |-> <<>>,
             remote |-> [id \in IssueIds |-> {}]]

\* --------------------------------------------------------------- transport
Throw(msg) == [t |-> "throw", message |-> msg]
Res(status, headers, body) ==
    [t |-> "res", status |-> status, headers |-> headers, body |-> body]

RetryHeaders ==
    { NoHeaders,
      Header("retry-after", <<"0">>),
      Header("Retry-After", <<"3">>),
      Header("RETRY-AFTER", <<"3">>),
      Header("retry-after", <<"a">>),
      Header("retry-after", <<>>) }

\* The transports: "plain" fails the way the test suite's fake clients do
\* (an exception, a 404, a 500); "throttling" also answers 429 and 5xx
\* with the retry-after headers above and may send an empty body.
Clients == {"plain", "throttling"}

ErrorReplies ==
    {Throw("network down"), Res(404, NoHeaders, JsonError), Res(500, NoHeaders, JsonError)}
    \cup (IF client = "throttling"
          THEN {Res(s, h, JsonError) : s \in {429, 500}, h \in RetryHeaders}
          ELSE {})

\* what the tracker adds for an "add version" payload
Resolve(payload) ==
    {v \in Catalog : IF payload.key = "id" THEN v.id = payload.value
                                            ELSE v.name = payload.value}

\* replies the transport can give to GET {issue}?fields={field}
GetReplies(issue) ==
    ErrorReplies
    \cup {Res(200, NoHeaders, b) : b \in {JsonIssue(remote[issue]), Garbage, JsonNull}}
    \cup (IF client = "throttling" THEN {Res(200, NoHeaders, Blank)} ELSE {})

\* replies the transport can give to PUT {issue} with the payload
PutReplies(payload) ==
    ErrorReplies
    \cup (IF Resolve(payload) # {} THEN {Res(204, NoHeaders, Blank)} ELSE {})

\* ------------------------------------------------------- issueAlreadyHasVersion
\* the field read from the wrong place: never there
ExistingNone(issueData) == {}

\* issueData.fields && issueData.fields[versionField] ? ... : []
Existing(issueData) ==
    IF issueData.hasFields THEN issueData.versions ELSE {}

\* the check with the id-or-name choice lost: names are always compared
issueAlreadyHasVersionByName(issueData, version, versionIsId) ==
    \E v \in Existing(issueData) : v.name = version

issueAlreadyHasVersion(issueData, version, versionIsId) ==
    \E v \in Existing(issueData) :
        IF versionIsId THEN v.id = version ELSE v.name = version

\* ------------------------------------------------------------ requestWithRetry
Is2xxOnly200(status) == status = 200
Is2xx(status) == status >= 200 /\ status < 300
IsClientErrorNever(status) == FALSE
IsClientError(status) == status >= 400 /\ status < 500 /\ status # 429

\* res.message.headers['retry-after'] || res.message.headers['Retry-After']
retryAfterHeader(headers) ==
    IF Truthy(Lookup(headers, "retry-after"))
    THEN Lookup(headers, "retry-after")
    ELSE Lookup(headers, "Retry-After")

waitSec(r, a) ==
    IF Truthy(retryAfterHeader(r.headers))
    THEN Number(retryAfterHeader(r.headers))
    ELSE Num(Pow(2, a))

\* the last-attempt test off by one: one attempt more is allowed
LastAttemptLate(a, maxRetries) == a > maxRetries

\* the last allowed attempt: if (attempt >= maxRetries)
LastAttempt(a, maxRetries) == a >= maxRetries

\* What requestWithRetry does with reply r to attempt a:
\* "return" the response, "throw" the error, or "sleep" and loop.
AfterReply(r, a, maxRetries) ==
    IF r.t = "throw"
    THEN IF LastAttempt(a, maxRetries) THEN "throw" ELSE "sleep"
    ELSE IF Is2xx(r.status) THEN "return"
    ELSE IF IsClientError(r.status) THEN "return"
    ELSE IF LastAttempt(a, maxRetries) THEN "return"
    ELSE "sleep"

\* the backoff after an exception without the growth by attempt
BackoffFlat(r, a) ==
    IF r.t = "throw" THEN Num(1000) ELSE Times(waitSec(r, a), 1000)

\* the argument of sleepFn
Backoff(r, a) ==
    IF r.t = "throw" THEN Num(Pow(2, a) * 1000) ELSE Times(waitSec(r, a), 1000)

\* the loop test off by one: no pass when the counter has reached maxRetries
LoopCondStrict(a, maxRetries) == a < maxRetries

\* while (attempt <= maxRetries)
LoopCond(a, maxRetries) == a <= maxRetries

\* ------------------------------------------------------------------ errors
HttpError(status, body) == [kind |-> "HTTP", status |-> status, text |-> body.text]
ExcError(message) == [kind |-> "exception", status |-> 0, text |-> message]
Failure(issue, error) == [issue |-> issue, error |-> error]

TypeErrorNull == "Cannot read properties of null (reading 'fields')"
TypeErrorUndefined == "Cannot read properties of undefined"

\* ------------------------------------------------------- assignVersionToIssues
Issue(i) == config.issues[i]

\* versionIsId ? { id: version } : { name: version }
versionField ==
    IF config.versionIsId THEN [key |-> "id", value |-> config.version]
                          ELSE [key |-> "name", value |-> config.version]

\* getBody ? JSON.parse(getBody) : {}, a parse failure leaving {}
ParseBody(body) ==
    IF body.text = "json" THEN body.value ELSE JsonError.value

\* issue lists up to renaming of the ids: the k-th distinct id of a list is
\* the k-th id of IssueOrder
IssueOrder == <<"ABC-1", "ABC-2">>
Canonical(l) ==
    \A i \in 1..Len(l) :
        \E k \in 1..Len(IssueOrder) :
            /\ l[i] = IssueOrder[k]
            /\ \A h \in 1..(k - 1) : \E j \in 1..(i - 1) : l[j] = IssueOrder[h]

IssueLists(n) == {l \in UNION {[1..m -> IssueIds] : m \in 0..n} : Canonical(l)}

Configs ==
    [ issues      : IssueLists(MaxIssues),
      version     : {V1.id, V1.name},
      versionIsId : BOOLEAN,
      dryRun      : BOOLEAN,
      concurrency : 1..MaxConcurrency,
      maxRetries  : 0..MaxRetriesBound ]

\* the tracker before the run: an issue of the list has no version or all
\* of them, an issue outside the list is not looked at
Remotes(issues) ==
    {r \in [IssueIds -> {{}, Catalog}] :
        \A id \in IssueIds : (\A i \in 1..Len(issues) : issues[i] # id) => r[id] = {}}

\* many issues at once, the version given the way versionIsId says
BatchConfigs ==
    {c \in Configs : c.version = IF c.versionIsId THEN V1.id ELSE V1.name}

\* one request at a time against a throttling transport
RetryConfigs == {c \in Configs : Len(c.issues) = 1 /\ c.concurrency = 1}

Fresh(f, v) == [i \in DOMAIN f |-> v]

Start0 ==
    /\ remote \in Remotes(config.issues)
    /\ pc = [i \in Tasks |-> "queued"]
    /\ attempt = [i \in Tasks |-> 0]
    /\ res = [i \in Tasks |-> NoRes]
    /\ sleepMs = [i \in Tasks |-> NoSleep]
    /\ activeCount = 0
    /\ updated = <<>>
    /\ skipped = <<>>
    /\ failed = <<>>
    /\ returned = FALSE
    /\ outcome = [i \in Tasks |-> "none"]
    /\ calls = [i \in Tasks |-> 0]
    /\ requests = [i \in Tasks |-> {}]
    /\ sleeps = [i \in Tasks |-> 0]
    /\ host = <<>>
    /\ run = 1
    /\ prev = NoReport

Init ==
    /\ config \in BatchConfigs
    /\ client = "plain"
    /\ Start0

InitRetry ==
    /\ config \in RetryConfigs
    /\ client = "throttling"
    /\ Start0

\* a batch with the version given by name against a tracker that has no
\* version on any issue yet (an issue listed twice is skipped the second time)
InitLive ==
    /\ Init
    /\ ~config.versionIsId
    /\ \A id \in IssueIds : remote[id] = {}

\* updated.push / skipped.push / failed.push, the task's function then ends
Record(i, bucket, entry) ==
    /\ updated' = IF bucket = "updated" THEN Append(updated, entry) ELSE updated
    /\ skipped' = IF bucket = "skipped" THEN Append(skipped, entry) ELSE skipped
    /\ failed' = IF bucket = "failed" THEN Append(failed, entry) ELSE failed
    /\ pc' = [pc EXCEPT ![i] = "done"]
    /\ attempt' = [attempt EXCEPT ![i] = 0]
    /\ sleepMs' = [sleepMs EXCEPT ![i] = NoSleep]
    /\ outcome' = [outcome EXCEPT ![i] = bucket]
    /\ calls' = [calls EXCEPT ![i] = 0]
    /\ sleeps' = [sleeps EXCEPT ![i] = 0]
    /\ UNCHANGED requests

\* attempt++ ; await client.request(method, ...)
Call(i, method, a) ==
    /\ pc' = [pc EXCEPT ![i] = method]
    /\ attempt' = [attempt EXCEPT ![i] = a + 1]
    /\ sleepMs' = [sleepMs EXCEPT ![i] = NoSleep]
    /\ calls' = [calls EXCEPT ![i] = IF a = 0 THEN 1 ELSE @ + 1]
    /\ sleeps' = [sleeps EXCEPT ![i] = IF a = 0 THEN 0 ELSE @]
    /\ requests' = [requests EXCEPT ![i] = @ \cup {method}]
    /\ UNCHANGED <<updated, skipped, failed, outcome>>

\* the head of requestWithRetry's loop with the counter at a: one more
\* attempt, or the function ends without a response and the caller's
\* dereference of it throws into the per-issue catch
LoopHead(i, method, a) ==
    IF LoopCond(a, config.maxRetries)
    THEN Call(i, method, a)
    ELSE Record(i, "failed", Failure(Issue(i), ExcError(TypeErrorUndefined)))

\* await sleepFn(ms)
Sleep(i, method, r) ==
    /\ pc' = [pc EXCEPT ![i] = IF method = "GET" THEN "GET_sleep" ELSE "PUT_sleep"]
    /\ sleepMs' = [sleepMs EXCEPT ![i] = Backoff(r, attempt[i])]
    /\ sleeps' = [sleeps EXCEPT ![i] = @ + 1]
    /\ UNCHANGED <<attempt, updated, skipped, failed, outcome, calls, requests>>

\* the code after the GET with the idempotency check left out
AfterGetAlwaysPut(i, getRes) ==
    LET issueData == ParseBody(getRes.body) IN
    IF issueData.t = "null"
    THEN Record(i, "failed", Failure(Issue(i), ExcError(TypeErrorNull)))
    ELSE LoopHead(i, "PUT", 0)

\* the code after the GET's requestWithRetry has returned getRes
AfterGet(i, getRes) ==
    LET issueData == ParseBody(getRes.body) IN
    IF issueData.t = "null"
    THEN Record(i, "failed", Failure(Issue(i), ExcError(TypeErrorNull)))
    ELSE IF issueAlreadyHasVersion(issueData, config.version, config.versionIsId)
    THEN Record(i, "skipped", Issue(i))
    ELSE LoopHead(i, "PUT", 0)

\* the code after the PUT with the status check left out
AfterPutAlwaysUpdated(i, putRes) == Record(i, "updated", Issue(i))

\* the code after the PUT's requestWithRetry has returned putRes
AfterPut(i, putRes) ==
    IF Is2xx(putRes.status)
    THEN Record(i, "updated", Issue(i))
    ELSE Record(i, "failed", Failure(Issue(i), HttpError(putRes.status, putRes.body)))

\* Catch that gives up on the run: the failure is recorded and every
\* sibling is dropped where it stands
CatchAbort(i, err) ==
    /\ failed' = Append(failed, Failure(Issue(i), ExcError(err.message)))
    /\ pc' = [j \in Tasks |-> "done"]
    /\ attempt' = [attempt EXCEPT ![i] = 0]
    /\ sleepMs' = [sleepMs EXCEPT ![i] = NoSleep]
    /\ outcome' = [outcome EXCEPT ![i] = "failed"]
    /\ calls' = [calls EXCEPT ![i] = 0]
    /\ sleeps' = [sleeps EXCEPT ![i] = 0]
    /\ UNCHANGED <<updated, skipped, requests>>

\* Catch with the push forgotten: the error is only logged
CatchSwallow(i, err) ==
    /\ pc' = [pc EXCEPT ![i] = "done"]
    /\ attempt' = [attempt EXCEPT ![i] = 0]
    /\ sleepMs' = [sleepMs EXCEPT ![i] = NoSleep]
    /\ outcome' = [outcome EXCEPT ![i] = "failed"]
    /\ calls' = [calls EXCEPT ![i] = 0]
    /\ sleeps' = [sleeps EXCEPT ![i] = 0]
    /\ UNCHANGED <<updated, skipped, failed, requests>>

\* Catch after which the task's promise never settles: the failure is
\* pushed but the limiter's slot stays taken
CatchHang(i, err) ==
    /\ failed' = Append(failed, Failure(Issue(i), ExcError(err.message)))
    /\ pc' = [pc EXCEPT ![i] = "hung"]
    /\ attempt' = [attempt EXCEPT ![i] = 0]
    /\ sleepMs' = [sleepMs EXCEPT ![i] = NoSleep]
    /\ outcome' = [outcome EXCEPT ![i] = "failed"]
    /\ calls' = [calls EXCEPT ![i] = 0]
    /\ sleeps' = [sleeps EXCEPT ![i] = 0]
    /\ UNCHANGED <<updated, skipped, requests>>

\* catch (err) { failed.push({ issue, error: err.message }) }
Catch(i, err) == Record(i, "failed", Failure(Issue(i), ExcError(err.message)))

\* Start without the dry-run branch
StartNoDryRun(i) ==
    /\ pc[i] = "queued"
    /\ \A j \in Tasks : j < i => pc[j] # "queued"
    /\ activeCount < config.concurrency
    /\ LoopHead(i, "GET", 0)
    /\ res' = res
    /\ activeCount' = IF pc'[i] = "done" THEN activeCount ELSE activeCount + 1
    /\ UNCHANGED <<config, client, remote, returned, run, prev, host>>

\* Start without the queue's order: any queued task may take the free slot
StartAnyOrder(i) ==
    /\ pc[i] = "queued"
    /\ activeCount < config.concurrency
    /\ IF config.dryRun
       THEN Record(i, "updated", Issue(i))
       ELSE LoopHead(i, "GET", 0)
    /\ res' = res
    /\ activeCount' = IF pc'[i] = "done" THEN activeCount ELSE activeCount + 1
    /\ UNCHANGED <<config, client, remote, returned, run, prev, host>>

\* Start without the limiter: every task is started at once
StartNoLimit(i) ==
    /\ pc[i] = "queued"
    /\ \A j \in Tasks : j < i => pc[j] # "queued"
    /\ IF config.dryRun
       THEN Record(i, "updated", Issue(i))
       ELSE LoopHead(i, "GET", 0)
    /\ res' = res
    /\ activeCount' = IF pc'[i] = "done" THEN activeCount ELSE activeCount + 1
    /\ UNCHANGED <<config, client, remote, returned, run, prev, host>>

\* p-limit starts the oldest queued task when a slot is free; the task runs
\* to its first await
Start(i) ==
    /\ pc[i] = "queued"
    /\ \A j \in Tasks : j < i => pc[j] # "queued"
    /\ activeCount < config.concurrency
    /\ IF config.dryRun
       THEN Record(i, "updated", Issue(i))
       ELSE LoopHead(i, "GET", 0)
    /\ res' = res
    /\ activeCount' = IF pc'[i] = "done" THEN activeCount ELSE activeCount + 1
    /\ UNCHANGED <<config, client, remote, returned, run, prev, host>>

\* the transport answers the GET in flight for task i
GetReply(i) ==
    /\ pc[i] = "GET"
    /\ \E r \in GetReplies(Issue(i)) :
        /\ res' = [res EXCEPT ![i] = r]
        /\ LET act == AfterReply(r, attempt[i], config.maxRetries) IN
           IF act = "sleep" THEN Sleep(i, "GET", r)
           ELSE IF act = "throw" THEN Catch(i, r)
           ELSE AfterGet(i, r)
    /\ activeCount' = IF pc'[i] = "done" THEN activeCount - 1 ELSE activeCount
    /\ UNCHANGED <<config, client, remote, returned, run, prev, host>>

\* the transport answers the PUT in flight for task i; a 2xx answer means
\* the tracker has added the version
PutReply(i) ==
    /\ pc[i] = "PUT"
    /\ \E r \in PutReplies(versionField) :
        /\ res' = [res EXCEPT ![i] = r]
        /\ remote' = IF r.t = "res" /\ Is2xx(r.status)
                     THEN [remote EXCEPT ![Issue(i)] = @ \cup Resolve(versionField)]
                     ELSE remote
        /\ LET act == AfterReply(r, attempt[i], config.maxRetries) IN
           IF act = "sleep" THEN Sleep(i, "PUT", r)
           ELSE IF act = "throw" THEN Catch(i, r)
           ELSE AfterPut(i, r)
    /\ activeCount' = IF pc'[i] = "done" THEN activeCount - 1 ELSE activeCount
    /\ UNCHANGED <<config, client, returned, run, prev, host>>

\* sleepFn resolves: back to the head of the loop
Wake(i) ==
    /\ pc[i] \in {"GET_sleep", "PUT_sleep"}
    /\ LoopHead(i, IF pc[i] = "GET_sleep" THEN "GET" ELSE "PUT", attempt[i])
    /\ res' = [res EXCEPT ![i] = NoRes]
    /\ activeCount' = IF pc'[i] = "done" THEN activeCount - 1 ELSE activeCount
    /\ UNCHANGED <<config, client, remote, returned, run, prev, host>>

\* the report handed back without the join on the tasks
ReturnEarly ==
    /\ ~returned
    /\ returned' = TRUE
    /\ UNCHANGED <<config, client, remote, pc, attempt, res, sleepMs, activeCount,
                   updated, skipped, failed, outcome, calls, requests, sleeps,
                   run, prev, host>>

\* Promise.all resolves; return { updated, failed, skipped }
Return ==
    /\ ~returned
    /\ \A i \in Tasks : pc[i] = "done"
    /\ returned' = TRUE
    /\ UNCHANGED <<config, client, remote, pc, attempt, res, sleepMs, activeCount,
                   updated, skipped, failed, outcome, calls, requests, sleeps,
                   run, prev, host>>

\* list.join(','): the elements with a comma between neighbours
RECURSIVE Join(_)
Join(seq) ==
    IF seq = <<>> THEN <<>>
    ELSE IF Len(seq) = 1 THEN seq
    ELSE <<Head(seq), ",">> \o Join(Tail(seq))

\* JSON.stringify(result.failed)
Stringify(list) == [json |-> list]

\* core.setOutput(name, value)
SetOutput(name, value) == [call |-> "setOutput", name |-> name, value |-> value]

\* core.info(`Done. Updated ... issues, skipped ..., failed ....`)
InfoDone ==
    [call |-> "info", name |-> "Done",
     value |-> <<Len(updated), Len(skipped), Len(failed)>>]

\* core.setFailed(`${result.failed.length} issues failed to update`)
SetFailed(n) ==
    [call |-> "setFailed", name |-> "issues failed to update", value |-> n]

Outputs ==
    <<SetOutput("updated-issues", Join(updated)),
      SetOutput("failed-issues", Stringify(failed)),
      SetOutput("skipped-issues", Join(skipped)),
      InfoDone>>

\* the status degraded first, the outputs never set when an issue failed
PublishFailFirst ==
    /\ returned
    /\ host = <<>>
    /\ host' = IF Len(failed) > 0 THEN <<SetFailed(Len(failed))>> ELSE Outputs
    /\ UNCHANGED <<config, client, remote, pc, attempt, res, sleepMs, activeCount,
                   updated, skipped, failed, returned, outcome, calls, requests,
                   sleeps, run, prev>>

\* run() after the await: the three outputs, the summary line, then
\* setFailed if result.failed is not empty
Publish ==
    /\ returned
    /\ host = <<>>
    /\ host' = Outputs \o (IF Len(failed) > 0 THEN <<SetFailed(Len(failed))>> ELSE <<>>)
    /\ UNCHANGED <<config, client, remote, pc, attempt, res, sleepMs, activeCount,
                   updated, skipped, failed, returned, outcome, calls, requests,
                   sleeps, run, prev>>

\* the action is run again with the same inputs against the same tracker
Rerun ==
    /\ returned
    /\ run < MaxRuns
    /\ run' = run + 1
    /\ prev' = [updated |-> updated, skipped |-> skipped, failed |-> failed,
                remote |-> remote]
    /\ pc' = Fresh(pc, "queued")
    /\ outcome' = Fresh(outcome, "none")
    /\ requests' = Fresh(requests, {})
    /\ updated' = <<>>
    /\ skipped' = <<>>
    /\ failed' = <<>>
    /\ returned' = FALSE
    /\ res' = Fresh(res, NoRes)
    /\ host' = <<>>
    /\ UNCHANGED <<config, client, remote, attempt, sleepMs, activeCount, calls, sleeps>>

Next ==
    \/ \E i \in Tasks : Start(i)
    \/ \E i \in Tasks : GetReply(i)
    \/ \E i \in Tasks : PutReply(i)
    \/ \E i \in Tasks : Wake(i)
    \/ Return

Spec == Init /\ [][Next]_vars

SpecRetry == InitRetry /\ [][Next]_vars

NextRuns == Next \/ Rerun

SpecRuns == InitRetry /\ [][NextRuns]_vars

\* the whole action: run() publishes the report of assignVersionToIssues
NextHost == Next \/ Publish

SpecHost == Init /\ [][NextHost]_vars

\* the batch under the proviso that every transport call and every sleep
\* completes and the event loop runs what is ready: a step that can be
\* taken is taken
Fairness == WF_vars(Next)

SpecLive == InitLive /\ [][Next]_vars /\ Fairness

\* ================================================================ properties
Count(seq, x) == Cardinality({k \in 1..Len(seq) : seq[k] = x})
FailedIssues == [k \in 1..Len(failed) |-> failed[k].issue]
InBuckets(id) == Count(updated, id) + Count(skipped, id) + Count(FailedIssues, id)
DuplicateFree(seq) == \A a, b \in 1..Len(seq) : seq[a] = seq[b] => a = b

\* C1 -- Partition: when the run has returned, the three lists hold one
\* entry per occurrence of an issue in the input: their lengths add up to
\* the length of the input, every id occurs in them as often as in the
\* input, and for an input without duplicates no id is in two lists or
\* twice in one.
C1_Partition ==
    returned =>
        /\ Len(updated) + Len(skipped) + Len(failed) = Len(config.issues)
        /\ \A id \in IssueIds : InBuckets(id) = Count(config.issues, id)
        /\ DuplicateFree(config.issues) =>
              /\ DuplicateFree(updated \o skipped \o FailedIssues)

\* a finished real run of two issues with a failure next to a success
C1_Witness ==
    /\ returned
    /\ ~config.dryRun
    /\ Len(config.issues) >= 2
    /\ failed # <<>>
    /\ updated # <<>> \/ skipped # <<>>

Progressing(i) == pc[i] \in {"GET", "GET_sleep", "PUT", "PUT_sleep"}
IsResponse(r) == r.t = "res"
IsThrow(r) == r.t = "throw"

\* the processing of task i has failed: a request threw on its last
\* attempt, or its PUT ended with a response that is not 2xx
ProcessingFailed(i) ==
    /\ pc[i] = "done"
    /\ \/ IsThrow(res[i])
       \/ "PUT" \in requests[i] /\ IsResponse(res[i]) /\ ~Is2xx(res[i].status)

C2_State ==
    /\ \A i \in Tasks : ProcessingFailed(i) => outcome[i] = "failed"
    /\ \A i \in Tasks :
          outcome[i] = "failed" => \E k \in 1..Len(failed) : failed[k].issue = Issue(i)
    /\ returned => \A i \in Tasks : outcome[i] # "none"
    /\ \A i, j \in Tasks :
          (outcome[i] = "failed" /\ pc[j] = "queued") =>
              (activeCount < config.concurrency \/ \E k \in Tasks : Progressing(k))

C2_Step ==
    \A i \in Tasks :
        (outcome[i] = "none" /\ outcome'[i] = "failed") =>
            /\ \A j \in Tasks \ {i} :
                  /\ pc'[j] = pc[j]
                  /\ attempt'[j] = attempt[j]
                  /\ res'[j] = res[j]
                  /\ sleepMs'[j] = sleepMs[j]
                  /\ outcome'[j] = outcome[j]
                  /\ requests'[j] = requests[j]
            /\ updated' = updated
            /\ skipped' = skipped
            /\ Len(failed') = Len(failed) + 1
            /\ SubSeq(failed', 1, Len(failed)) = failed
            /\ failed'[Len(failed')].issue = Issue(i)
            /\ remote' = remote
            /\ returned' = FALSE

\* C2 -- Fault isolation: an issue whose processing fails (a request throws
\* on its last attempt, or its PUT ends non-2xx) is recorded in failed; the
\* step that records the failure leaves every other task, the other two
\* lists and the tracker as they were and does not end the run; a queued
\* issue can still start or waits for one that is running; and a run that
\* has returned holds an outcome for every issue.
C2_FaultIsolation == [](C2_State) /\ [][C2_Step]_vars

\* one issue failed on a transport exception, its sibling was updated
C2_Witness ==
    /\ returned
    /\ \E i, j \in Tasks :
          /\ outcome[i] = "failed" /\ IsThrow(res[i])
          /\ outcome[j] = "updated"

Sleeping(i) == pc[i] \in {"GET_sleep", "PUT_sleep"}
Retryable(status) == status = 429 \/ (status >= 500 /\ status < 600)
Embeds(i, status) ==
    \E k \in 1..Len(failed) :
        failed[k].issue = Issue(i) /\ failed[k].error.status = status

\* C3 -- Non-retryable client error: a task whose last answer is a 4xx
\* response other than 429 (to its GET or to its PUT) has ended, no request
\* follows that answer, and it is in failed with the status in its error.
C3_ClientErrorTerminates ==
    \A i \in Tasks :
        (IsResponse(res[i]) /\ IsClientError(res[i].status)) =>
            /\ pc[i] = "done"
            /\ outcome[i] = "failed"
            /\ Embeds(i, res[i].status)

\* C4 -- Retry exhaustion: a task whose request (GET or PUT) has used up
\* its attempts on a retryable response (the response is its last answer
\* and it is not backing off) has ended in failed with that status in its
\* error.
C4_ExhaustionFails ==
    \A i \in Tasks :
        (IsResponse(res[i]) /\ Retryable(res[i].status) /\ ~Sleeping(i)) =>
            /\ pc[i] = "done"
            /\ outcome[i] = "failed"
            /\ Embeds(i, res[i].status)

\* the answer is a 2xx response whose body is an issue with the target
\* version in its field
CarriesTarget(r) ==
    /\ IsResponse(r)
    /\ Is2xx(r.status)
    /\ r.body.text = "json"
    /\ r.body.value.t = "object"
    /\ r.body.value.hasFields
    /\ \E v \in r.body.value.versions :
          \/ config.versionIsId /\ v.id = config.version
          \/ ~config.versionIsId /\ v.name = config.version

\* C5 -- Idempotent skip: in a real run (every run against the tracker), a
\* task whose GET was answered with the target version in the field is in
\* skipped and has issued no PUT; a skipped task has never issued a PUT.
C5_IdempotentSkip ==
    ~config.dryRun =>
        \A i \in Tasks :
            /\ CarriesTarget(res[i]) =>
                  /\ pc[i] = "done"
                  /\ outcome[i] = "skipped"
                  /\ requests[i] = {"GET"}
            /\ outcome[i] = "skipped" => requests[i] = {"GET"}

\* the issue was skipped in the run before and is skipped again, with the
\* id given as id, and no PUT
C5_Witness ==
    /\ run = 2
    /\ returned
    /\ config.versionIsId
    /\ \E i \in Tasks :
          /\ Count(prev.skipped, Issue(i)) = 1
          /\ outcome[i] = "skipped"
          /\ requests[i] = {"GET"}

\* the GET of task i was answered 2xx with the field as the tracker has it
GetAnsweredField(i) ==
    /\ IsResponse(res[i])
    /\ Is2xx(res[i].status)
    /\ res[i].body = JsonIssue(remote[Issue(i)])

UpdatedBefore(i) == Count(prev.updated, Issue(i)) > 0

\* C6 as claimed: an issue updated by the run before (a real run) gets no
\* PUT in this run, ends in skipped, and its field stays what it was.
C6_Original ==
    (run >= 2 /\ ~config.dryRun) =>
        \A i \in Tasks :
            UpdatedBefore(i) =>
                /\ "PUT" \notin requests[i]
                /\ pc[i] = "done" => outcome[i] = "skipped"
                /\ remote[Issue(i)] = prev.remote[Issue(i)]

\* C6 -- Run-level idempotence, amended: for an issue updated by the run
\* before (a real run), the field on the tracker stays what it was after
\* that run, and if this run's GET for it is answered 2xx with the current
\* field the issue gets no PUT and is recorded in skipped.
C6_RunIdempotence ==
    (run >= 2 /\ ~config.dryRun) =>
        \A i \in Tasks :
            UpdatedBefore(i) =>
                /\ remote[Issue(i)] = prev.remote[Issue(i)]
                /\ GetAnsweredField(i) =>
                      /\ pc[i] = "done"
                      /\ outcome[i] = "skipped"
                      /\ requests[i] = {"GET"}

\* updated by the first run, skipped by the second
C6_Witness ==
    /\ run = 2
    /\ returned
    /\ ~config.dryRun
    /\ \E i \in Tasks : UpdatedBefore(i) /\ outcome[i] = "skipped"

SameElements(a, b) ==
    /\ Len(a) = Len(b)
    /\ \A id \in IssueIds : Count(a, id) = Count(b, id)

\* C7 -- Dry-run: with dryRun no task ever asks the transport for anything
\* (no GET, no PUT, nothing in flight, no backoff), skipped and failed stay
\* empty, and the report returned has the input issues, each as often as in
\* the input, as updated.
C7_DryRun ==
    config.dryRun =>
        /\ \A i \in Tasks :
              /\ requests[i] = {}
              /\ calls[i] = 0
              /\ pc[i] \in {"queued", "done"}
              /\ res[i] = NoRes
        /\ skipped = <<>>
        /\ failed = <<>>
        /\ returned => SameElements(updated, config.issues)

\* a dry run of the longest list has returned
C7_Witness ==
    /\ config.dryRun
    /\ returned
    /\ Len(config.issues) = MaxIssues
    /\ Len(updated) = MaxIssues

InProgress == {i \in Tasks : Progressing(i)}
InFlight == {i \in Tasks : pc[i] \in {"GET", "PUT"}}

\* C8 -- Concurrency bound: the tasks that have begun and have not recorded
\* their outcome (waiting for the transport or backing off) are never more
\* than config.concurrency, they are the holders of the limiter's slots,
\* and with concurrency 1 at most one transport call is in flight.
C8_ConcurrencyBound ==
    /\ Cardinality(InProgress) <= config.concurrency
    /\ Cardinality(InProgress) = activeCount
    /\ config.concurrency = 1 => Cardinality(InFlight) <= 1

\* every slot is taken, one holder is backing off, and an issue waits
C8_Witness ==
    /\ Cardinality(InProgress) = config.concurrency
    /\ \E i \in Tasks : Sleeping(i)
    /\ \E i \in Tasks : pc[i] = "queued"

\* the retry-after hint of a response, under either of the two spellings
\* the header usually has; <<>> when there is none
HintOf(headers) ==
    IF "retry-after" \in DOMAIN headers THEN headers["retry-after"]
    ELSE IF "Retry-After" \in DOMAIN headers THEN headers["Retry-After"]
    ELSE <<>>

\* a number of seconds: one decimal digit or more
Parseable(hint) == hint # <<>> /\ \A k \in 1..Len(hint) : IsDigit(hint[k])

\* C9 -- Retry wait time: while a task backs off from a retryable response
\* to attempt a, the delay handed to sleepFn is hint * 1000 ms if the
\* response has a retry-after hint that parses as a number of seconds, and
\* 2^a * 1000 ms otherwise, an unparseable hint included.
C9_WaitTime ==
    \A i \in Tasks :
        (Sleeping(i) /\ IsResponse(res[i])) =>
            sleepMs[i] =
                IF Parseable(HintOf(res[i].headers))
                THEN Num(Decimal(HintOf(res[i].headers)) * 1000)
                ELSE Num(Pow(2, attempt[i]) * 1000)

Max(a, b) == IF a >= b THEN a ELSE b

\* the request of task i ends in this step
RequestEnds(i) ==
    /\ pc[i] \in {"GET", "PUT"}
    /\ pc'[i] # pc[i]
    /\ pc'[i] \notin {"GET_sleep", "PUT_sleep"}

\* the answer that ended it was an exception or a retryable response
EndedRetryable(i) ==
    \/ IsThrow(res'[i])
    \/ IsResponse(res'[i]) /\ Retryable(res'[i].status)

\* C10 as claimed: the transport calls of one request never exceed
\* maxRetries.
C10_Original == \A i \in Tasks : calls[i] <= config.maxRetries

C10_State ==
    \A i \in Tasks :
        /\ calls[i] <= Max(1, config.maxRetries)
        /\ pc[i] \in {"GET", "PUT", "GET_sleep", "PUT_sleep"} => calls[i] = attempt[i]

C10_Step ==
    \A i \in Tasks :
        (RequestEnds(i) /\ EndedRetryable(i)) => calls[i] = Max(1, config.maxRetries)

\* C10 -- Attempt bound, amended: the transport calls of one request never
\* exceed max(1, maxRetries) (one call is made even with maxRetries = 0),
\* the call in flight is the one numbered by the attempt counter, and a
\* request that ends on an exception or on a retryable response has made
\* exactly max(1, maxRetries) calls.
C10_AttemptBound == [](C10_State) /\ [][C10_Step]_vars

\* the last allowed call of a request with retries is in flight
C10_Witness ==
    /\ config.maxRetries >= 2
    /\ \E i \in Tasks : pc[i] = "PUT" /\ calls[i] = config.maxRetries

\* the answer is a response with a status in [200, 300)
Succeeded(r) == IsResponse(r) /\ r.status >= 200 /\ r.status < 300

\* the PUT in flight for task i is answered 2xx in this step
PutSucceeds(i) ==
    /\ pc[i] = "PUT"
    /\ pc'[i] # "PUT"
    /\ Succeeded(res'[i])

C11_State ==
    \A i \in Tasks :
        pc[i] \in {"GET", "PUT"} => calls[i] = sleeps[i] + 1

C11_Step ==
    \A i \in Tasks :
        PutSucceeds(i) =>
            /\ pc'[i] = "done"
            /\ outcome'[i] = "updated"
            /\ Count(updated', Issue(i)) = Count(updated, Issue(i)) + 1
            /\ failed' = failed
            /\ calls[i] = sleeps[i] + 1

\* C11 -- Retry success: a PUT answered 2xx after k answers that were
\* retried (each followed by one backoff sleep) ends the task in updated,
\* not failed, with exactly k + 1 PUT calls made; while a call is in flight
\* the calls made for the request are one more than the backoffs taken.
C11_RetrySuccess == [](C11_State) /\ [][C11_Step]_vars

\* the second PUT call is in flight after one backoff, the GET answered 200
\* with an empty field before
C11_Witness ==
    \E i \in Tasks :
        /\ pc[i] = "PUT"
        /\ calls[i] = 2
        /\ sleeps[i] = 1
        /\ remote[Issue(i)] = {}

\* the entry of failed that carries the message of the exception
FailedWithMessage(i, message) ==
    \E k \in 1..Len(failed) :
        /\ failed[k].issue = Issue(i)
        /\ failed[k].error.kind = "exception"
        /\ failed[k].error.text = message

\* the call in flight for task i throws in this step
CallThrows(i) ==
    /\ pc[i] \in {"GET", "PUT"}
    /\ pc'[i] # pc[i]
    /\ IsThrow(res'[i])

C12_State ==
    \A i \in Tasks :
        /\ (Sleeping(i) /\ IsThrow(res[i])) =>
              /\ attempt[i] < config.maxRetries
              /\ sleepMs[i] = Num(Pow(2, attempt[i]) * 1000)
        /\ (~Sleeping(i) /\ IsThrow(res[i])) =>
              /\ pc[i] = "done"
              /\ outcome[i] = "failed"
              /\ FailedWithMessage(i, res[i].message)

C12_Step ==
    \A i \in Tasks :
        CallThrows(i) =>
            /\ attempt[i] < config.maxRetries =>
                  /\ pc'[i] = IF pc[i] = "GET" THEN "GET_sleep" ELSE "PUT_sleep"
                  /\ failed' = failed
            /\ attempt[i] >= config.maxRetries =>
                  /\ pc'[i] = "done"
                  /\ Len(failed') = Len(failed) + 1
                  /\ requests'[i] = requests[i]

\* C12 -- Transport failure: a call that throws on an attempt below
\* maxRetries is followed by a sleep of 2^attempt seconds and a retry, with
\* nothing recorded; a call that throws on the last allowed attempt ends
\* the task in failed with the message of the exception as its error, and
\* no request follows it (no PUT if the call was the GET).
C12_TransportFailure == [](C12_State) /\ [][C12_Step]_vars

\* the GET threw on its last allowed attempt, reached through a retry: the
\* task is in failed with the message and no PUT was issued
C12_Witness ==
    /\ config.maxRetries >= 2
    /\ \E i \in Tasks :
          /\ pc[i] = "done"
          /\ IsThrow(res[i])
          /\ requests[i] = {"GET"}
          /\ FailedWithMessage(i, "network down")

\* every task has recorded its outcome
AllRecorded ==
    /\ \A i \in Tasks : pc[i] = "done" /\ outcome[i] # "none"
    /\ Len(updated) + Len(skipped) + Len(failed) = Len(config.issues)

C13_State == returned => AllRecorded

C13_Step ==
    /\ returned' => AllRecorded
    /\ returned =>
          /\ returned'
          /\ updated' = updated
          /\ skipped' = skipped
          /\ failed' = failed
          /\ outcome' = outcome

\* C13 -- Join point: the report is returned only in a state where every
\* task has recorded its outcome (the three lists hold as many entries as
\* the input has issues), and after the return nothing is appended to the
\* lists.
C13_JoinPoint == [](C13_State) /\ [][C13_Step]_vars

\* a real run over two issues has returned, one of them failed
C13_Witness ==
    /\ returned
    /\ ~config.dryRun
    /\ Len(config.issues) >= 2
    /\ failed # <<>>
    /\ Len(updated) + Len(skipped) + Len(failed) = Len(config.issues)

\* the positions in the log of core calls of the given kind and name
HostCalls(call, name) ==
    {k \in 1..Len(host) : host[k].call = call /\ host[k].name = name}

\* the output of that name was set, once, to that value
OutputIs(name, value) ==
    /\ Cardinality(HostCalls("setOutput", name)) = 1
    /\ \A k \in HostCalls("setOutput", name) : host[k].value = value

MarkedFailed == \E k \in 1..Len(host) : host[k].call = "setFailed"

\* the ids of a list, with a comma between neighbours
Commas(list) ==
    [k \in 1..(IF list = <<>> THEN 0 ELSE 2 * Len(list) - 1) |->
        IF k % 2 = 1 THEN list[(k + 1) \div 2] ELSE ","]

\* C14 -- Exit status: before run() goes on after the report the host is
\* not marked failed; once it has, the host is marked failed exactly if the
\* failed list of the report is not empty, the outputs updated-issues,
\* skipped-issues and failed-issues are set to the three lists whether or
\* not it is marked failed, and every output was set before setFailed was
\* called.
C14_ExitStatus ==
    /\ host = <<>> => ~MarkedFailed
    /\ host # <<>> =>
          /\ returned
          /\ MarkedFailed <=> failed # <<>>
          /\ OutputIs("updated-issues", Commas(updated))
          /\ OutputIs("skipped-issues", Commas(skipped))
          /\ OutputIs("failed-issues", [json |-> failed])
          /\ \A k \in 1..Len(host) :
                host[k].call = "setFailed" =>
                    \A o \in {"updated-issues", "skipped-issues", "failed-issues"} :
                        \E j \in HostCalls("setOutput", o) : j < k

\* partial success published: an issue updated, another failed, the host
\* marked failed and the outputs set
C14_Witness ==
    /\ MarkedFailed
    /\ updated # <<>>
    /\ failed # <<>>
    /\ OutputIs("updated-issues", Commas(updated))

\* a status on which requestWithRetry is to return at once
Immediate(status) ==
    \/ status >= 200 /\ status < 300
    \/ status >= 400 /\ status < 500 /\ status # 429

\* the call in flight for task i is answered with such a status in this step
AnsweredImmediate(i) ==
    /\ pc[i] \in {"GET", "PUT"}
    /\ pc'[i] # pc[i]
    /\ IsResponse(res'[i])
    /\ Immediate(res'[i].status)

C15_State ==
    \A i \in Tasks :
        (IsResponse(res[i]) /\ Immediate(res[i].status)) =>
            /\ ~Sleeping(i)
            /\ pc[i] = "done" \/ (pc[i] = "PUT" /\ calls[i] = 1)

C15_Step ==
    \A i \in Tasks :
        AnsweredImmediate(i) =>
            /\ pc'[i] \notin {"GET_sleep", "PUT_sleep", pc[i]}
            /\ sleepMs'[i] = NoSleep
            /\ sleeps'[i] = 0
            /\ pc[i] = "PUT" => pc'[i] = "done"
            /\ pc[i] = "GET" =>
                  \/ pc'[i] = "done"
                  \/ pc'[i] = "PUT" /\ calls'[i] = 1 /\ requests'[i] = {"GET", "PUT"}

\* C15 -- Immediate return: an answer with a status in [200,300), or in
\* [400,500) other than 429, ends its request in the same step, whatever
\* maxRetries and the attempt are: no sleep follows it and no further call
\* is made for that request (after a GET the next call, if any, is the first
\* call of the PUT).
C15_ImmediateReturn == [](C15_State) /\ [][C15_Step]_vars

\* with retries still allowed, the PUT was answered 404 and the task has
\* ended there
C15_Witness ==
    /\ config.maxRetries >= 2
    /\ \E i \in Tasks :
          /\ pc[i] = "done"
          /\ requests[i] = {"GET", "PUT"}
          /\ IsResponse(res[i])
          /\ res[i].status = 404

\* a body that is empty, is no JSON, or is JSON of another shape than an
\* object with the fields member
Malformed(body) ==
    \/ body.text # "json"
    \/ body.value.t # "object"
    \/ ~body.value.hasFields

\* C16 -- Malformed GET body: a task whose last answer is a 2xx response
\* with a malformed body (empty, unparseable, or JSON of another shape such
\* as null) has gone on to the PUT: the PUT has been requested, and the
\* task is neither skipped nor recorded in failed without a PUT.
C16_MalformedBody ==
    \A i \in Tasks :
        (Succeeded(res[i]) /\ Malformed(res[i].body)) =>
            /\ "PUT" \in requests[i]
            /\ outcome[i] # "skipped"

\* the body is an issue whose field holds the target version
TargetInBody(body) ==
    /\ body.text = "json"
    /\ body.value.t = "object"
    /\ body.value.hasFields
    /\ \E v \in body.value.versions :
          IF config.versionIsId THEN v.id = config.version
                                ELSE v.name = config.version

\* the first PUT call for task i is made in this step
FirstPut(i) == "PUT" \notin requests[i] /\ "PUT" \in requests'[i]

C17_State ==
    \A i \in Tasks :
        /\ "PUT" \in requests[i] => "GET" \in requests[i]
        /\ pc[i] \in {"PUT", "PUT_sleep"} => "PUT" \in requests[i]
        /\ pc[i] \in {"GET", "GET_sleep"} => requests[i] = {"GET"}

C17_Step ==
    \A i \in Tasks :
        /\ FirstPut(i) =>
              /\ pc[i] = "GET"
              /\ pc'[i] = "PUT"
              /\ IsResponse(res'[i])
              /\ ~TargetInBody(res'[i].body)
        /\ "PUT" \in requests[i] =>
              /\ pc'[i] \in {"PUT", "PUT_sleep", "done"}
              /\ requests'[i] = requests[i]

\* C17 -- Within-issue ordering: the first PUT call for an issue is made in
\* the step in which its GET is answered with a response whose body does
\* not hold the target version; once a PUT has been requested for an issue
\* no GET is requested for it again in the run.  (Across issues the calls
\* interleave freely: see the witness.)
C17_WithinIssueOrder == [](C17_State) /\ [][C17_Step]_vars

\* the PUT of a later issue is in flight while the GET of an earlier issue
\* is still unanswered
C17_Witness ==
    \E i, j \in Tasks :
        /\ i < j
        /\ pc[i] = "GET"
        /\ pc[j] = "PUT"
        /\ "GET" \in requests[j]

\* every task has begun and recorded its outcome, the report is returned
\* and no slot of the limiter is taken
Finished ==
    /\ returned
    /\ activeCount = 0
    /\ \A i \in Tasks : pc[i] = "done" /\ outcome[i] # "none"

\* a task that has recorded its outcome, or has not begun, holds no slot
SlotsOfRunning ==
    activeCount = Cardinality({i \in Tasks : pc[i] \notin {"queued", "done"}})

\* C18 -- No starvation and slot release: for every concurrency and every
\* number of issues, if every step that can be taken is eventually taken
\* (transport calls and sleeps complete), the run eventually reaches the
\* state where every issue has begun and recorded its outcome, the report
\* is returned and every slot is free; at all times the slots taken are
\* those of the tasks begun and not yet recorded, whichever way a task ended.
C18_NoStarvation == [](SlotsOfRunning) /\ <>(Finished)

\* more issues than slots: the first issue ended on an exception, the one
\* queued behind it got the slot and ended too, and the run returned
C18_Witness ==
    /\ returned
    /\ activeCount = 0
    /\ config.concurrency < Len(config.issues)
    /\ \E i, j \in Tasks :
          /\ i < j
          /\ outcome[i] = "failed"
          /\ IsThrow(res[i])
          /\ outcome[j] = "updated"

\* capitalisations of the retry-after header name
Spellings == {"retry-after", "Retry-After", "RETRY-AFTER"}

\* the value of the retry-after header whatever its capitalisation; <<>>
\* when the response has none
HintAnyCase(headers) ==
    IF Spellings \cap DOMAIN headers = {} THEN <<>>
    ELSE headers[CHOOSE n \in Spellings \cap DOMAIN headers : TRUE]

\* C19 -- Retry-after lookup is case-insensitive: while a task backs off
\* from a retryable response that carries a parseable retry-after hint
\* under any capitalisation of the header name, the delay handed to sleepFn
\* is the hint in seconds, not 2^attempt seconds.
C19_CaseInsensitive ==
    \A i \in Tasks :
        (Sleeping(i) /\ IsResponse(res[i]) /\ Parseable(HintAnyCase(res[i].headers))) =>
            sleepMs[i] = Num(Decimal(HintAnyCase(res[i].headers)) * 1000)

\* C20 -- Dry-run order: with dryRun, updated is at all times the input
\* list up to the issues recorded so far, in input order, and the report
\* returned has updated equal to the input list, for every input list and
\* every concurrency.
C20_DryRunOrder ==
    config.dryRun =>
        /\ Len(updated) <= Len(config.issues)
        /\ updated = SubSeq(config.issues, 1, Len(updated))
        /\ returned => updated = config.issues

\* a dry run over two different issues with two slots has returned them in
\* input order
C20_Witness ==
    /\ config.dryRun
    /\ returned
    /\ config.concurrency >= 2
    /\ Len(config.issues) >= 2
    /\ config.issues[1] # config.issues[2]
    /\ updated = config.issues

\* the GET in flight for task i is answered with a response in this step,
\* no PUT having been requested
GetReceived(i) ==
    /\ pc[i] = "GET"
    /\ pc'[i] # "GET"
    /\ IsResponse(res'[i])
    /\ requests[i] = {"GET"}

C21_State ==
    ~config.dryRun =>
        \A i \in Tasks :
            /\ outcome[i] = "updated" =>
                  /\ "PUT" \in requests[i]
                  /\ Succeeded(res[i])
                  /\ Count(updated, Issue(i)) >= 1
            /\ outcome[i] = "skipped" =>
                  /\ requests[i] = {"GET"}
                  /\ IsResponse(res[i])
                  /\ Count(skipped, Issue(i)) >= 1
            /\ Len(updated) = Cardinality({j \in Tasks : outcome[j] = "updated"})
            /\ Len(skipped) = Cardinality({j \in Tasks : outcome[j] = "skipped"})

C21_Step ==
    ~config.dryRun =>
        \A i \in Tasks :
            /\ (outcome[i] # "updated" /\ outcome'[i] = "updated") => PutSucceeds(i)
            /\ (outcome[i] # "skipped" /\ outcome'[i] = "skipped") =>
                  GetReceived(i) /\ requests'[i] = {"GET"}
            /\ PutSucceeds(i) => pc'[i] = "done"
            /\ pc[i] = "done" =>
                  /\ pc'[i] = "done"
                  /\ requests'[i] = requests[i]
                  /\ outcome'[i] = outcome[i]

\* C21 -- Outcome soundness: in a real run a task takes the outcome updated
\* only in the step in which its PUT is answered 2xx, and the outcome
\* skipped only in the step in which its GET is answered, no PUT requested
\* before or after; updated and skipped hold one entry per task with that
\* outcome; a PUT answered 2xx ends its task, which makes no call
\* afterwards, so no write is repeated after a successful write.
C21_OutcomeSoundness == [](C21_State) /\ [][C21_Step]_vars

\* an issue listed twice: the first occurrence was written and is in
\* updated, the second found the version and is in skipped
C21_Witness ==
    /\ ~config.dryRun
    /\ returned
    /\ \E i, j \in Tasks :
          /\ i < j
          /\ Issue(i) = Issue(j)
          /\ outcome[i] = "updated"
          /\ outcome[j] = "skipped"
          /\ requests[j] = {"GET"}

\* the answer is what a transport call gave: a response or an exception
Answered(r) == IsResponse(r) \/ IsThrow(r)

\* a failure recorded because requestWithRetry ended without a response
FellOut ==
    \E k \in 1..Len(failed) : failed[k].error.text = TypeErrorUndefined

C22_State ==
    /\ ~FellOut
    /\ \A i \in Tasks :
          /\ pc[i] \in {"GET", "PUT", "GET_sleep", "PUT_sleep"} => calls[i] >= 1
          /\ (~config.dryRun /\ outcome[i] # "none") =>
                /\ "GET" \in requests[i]
                /\ Answered(res[i])

C22_Step ==
    \A i \in Tasks :
        /\ (~config.dryRun /\ pc[i] = "queued" /\ pc'[i] # "queued") =>
              pc'[i] = "GET" /\ calls'[i] = 1
        /\ FirstPut(i) => pc'[i] = "PUT" /\ calls'[i] = 1
        /\ (Sleeping(i) /\ pc'[i] # pc[i]) =>
              /\ pc'[i] = IF pc[i] = "GET_sleep" THEN "GET" ELSE "PUT"
              /\ calls'[i] = calls[i] + 1
        /\ RequestEnds(i) => calls[i] >= 1 /\ Answered(res'[i])

\* C22 -- At least one attempt: for every maxRetries from 0 up, a request
\* begins with a transport call, a backoff is followed by another call, and
\* a request ends only on an answer of the transport (a response returned
\* or the exception thrown), never by leaving the loop without one; so in a
\* real run a task with an outcome has had its GET requested and answered.
C22_AtLeastOneAttempt == [](C22_State) /\ [][C22_Step]_vars

\* with maxRetries 0 the GET and the PUT each had their call and the issue
\* is in updated
C22_Witness ==
    /\ config.maxRetries = 0
    /\ ~config.dryRun
    /\ \E i \in Tasks :
          /\ outcome[i] = "updated"
          /\ requests[i] = {"GET", "PUT"}
          /\ Succeeded(res[i])

====
